---- MODULE Spec2Model ----
(***************************************************************************)
(* Model of kernel/busses/i2c-osb4.c, the SMBus driver of the ServerWorks  *)
(* OSB4 south bridge: osb4_access and osb4_transaction (the register       *)
(* protocol of one SMBus transfer) and osb4_setup, i2c_osb4_init and       *)
(* osb4_cleanup (the life cycle of the driver).                            *)
(*                                                                         *)
(* The controller is the environment.  Every read of the status register   *)
(* SMBHSTSTS returns a value the hardware chooses; the other registers     *)
(* read back what was last written, except that the hardware replaces the  *)
(* data registers when it runs a read cycle.  io is the log of the port    *)
(* accesses of the current osb4_access call, in program order; the status  *)
(* reads of the polling loop are counted in polls instead of logged.       *)
(***************************************************************************)
EXTENDS Integers, Sequences, FiniteSets, TLC

(***************************************************************************)
(* Bit arithmetic on naturals (C's & and | on non-negative ints).          *)
(***************************************************************************)
RECURSIVE And(_, _)
And(a, b) ==
  IF a = 0 \/ b = 0 THEN 0
  ELSE (IF a % 2 = 1 /\ b % 2 = 1 THEN 1 ELSE 0) + 2 * And(a \div 2, b \div 2)

RECURSIVE Or(_, _)
Or(a, b) ==
  IF a = 0 THEN b
  ELSE IF b = 0 THEN a
  ELSE (IF a % 2 = 1 \/ b % 2 = 1 THEN 1 ELSE 0) + 2 * Or(a \div 2, b \div 2)

(***************************************************************************)
(* Constants of the source.                                                *)
(***************************************************************************)
MAX_TIMEOUT == 500
ENABLE_INT9 == 0

OSB4_QUICK == 0
OSB4_BYTE == 4
OSB4_BYTE_DATA == 8
OSB4_WORD_DATA == 12
OSB4_BLOCK_DATA == 20

\* The size classes and directions of <linux/i2c.h>, as osb4_access uses them.
I2C_SMBUS_QUICK == 0
I2C_SMBUS_BYTE == 1
I2C_SMBUS_BYTE_DATA == 2
I2C_SMBUS_WORD_DATA == 3
I2C_SMBUS_PROC_CALL == 4
I2C_SMBUS_BLOCK_DATA == 5
I2C_SMBUS_WRITE == 0
I2C_SMBUS_READ == 1
\* union i2c_smbus_data: block[0] is the length, block[1..32] the bytes.
I2C_SMBUS_BLOCK_MAX == 32

\* The registers of the I/O window (offsets 0, 2, 3, 4, 5, 6, 7 from osb4_smba).
SMBHSTSTS == "SMBHSTSTS"
SMBHSTCNT == "SMBHSTCNT"
SMBHSTCMD == "SMBHSTCMD"
SMBHSTADD == "SMBHSTADD"
SMBHSTDAT0 == "SMBHSTDAT0"
SMBHSTDAT1 == "SMBHSTDAT1"
SMBBLKDAT == "SMBBLKDAT"

\* The registers that read back what was written to them.
LatchedRegs == {SMBHSTCNT, SMBHSTCMD, SMBHSTADD, SMBHSTDAT0, SMBHSTDAT1}
\* The registers a transfer returns its result in.
ResultRegs == {SMBHSTDAT0, SMBHSTDAT1, SMBBLKDAT}

\* A value not there yet is None; a value v that is there is Some(v).
None == <<>>
Some(v) == <<v>>

VARIABLES
  DEBUG,            \* the build: TRUE iff the file is compiled with DEBUG defined
  pc,               \* position of the one caller inside osb4_access
  size,             \* osb4_access: int size (rewritten to the OSB4_ code)
  read_write,       \* osb4_access: char read_write
  addr,             \* osb4_access: u16 addr
  command,          \* osb4_access: u8 command
  data,             \* osb4_access: *data, the bytes of the union, by offset
  dataIn,           \* history: *data as the caller passed it
  sizeIn,           \* history: size as the caller passed it
  overrun,          \* history: bytes osb4_access stored past the end of *data
  temp,             \* osb4_transaction: int temp
  result,           \* osb4_transaction: int result
  timeout,          \* osb4_transaction: int timeout
  polls,            \* history: iterations of the polling loop in this call
  lastPoll,         \* history: the last status byte the polling loop read (polls > 0)
  tret,             \* history: what osb4_transaction returned, or None
  tmark,            \* history: Len(io) when osb4_transaction returned
  ret,              \* what osb4_access returned, or None
  regs,             \* hardware: the latched registers
  blk,              \* hardware: the 32-byte block buffer behind SMBBLKDAT
  blkptr,           \* hardware: the index SMBBLKDAT reads or writes next
  wordOut,          \* history: the word the last word-data write stored, while
                    \* data0 and data1 still hold it; else None
  io                \* history: the port accesses of this call, in order

busVars == <<DEBUG, pc, size, read_write, addr, command, data, dataIn, sizeIn,
             overrun,
             temp, result, timeout, polls, lastPoll, tret, tmark, ret, regs,
             blk, blkptr, wordOut, io>>

VARIABLES
  force,            \* insmod parameter force
  force_addr,       \* insmod parameter force_addr
  osb4_smba,        \* static unsigned short osb4_smba
  osb4_initialized, \* static int osb4_initialized
  spc,              \* where i2c_osb4_init stands, or "unloaded" / "loaded"
  stemp,            \* osb4_setup: unsigned char temp
  sret,             \* history: what osb4_setup returned, or None
  ires,             \* history: what i2c_osb4_init returned, or None
  pci_bus,          \* platform: pci_present()
  devfns,           \* platform: PCI_FUNC of the devices with the OSB4 ids, in order
  pcicfg,           \* platform: configuration registers of the OSB4, function 0
  regions,          \* platform: who holds the 8-port window at each base
  adapter,          \* platform: osb4_adapter is registered with the i2c core
  plat              \* history: the platform calls of the last entry into the driver

setupVars == <<force, force_addr, osb4_smba, osb4_initialized, spc, stemp, sret,
               ires, pci_bus, devfns, pcicfg, regions, adapter, plat>>

vars == <<busVars, setupVars>>

(***************************************************************************)
(* Port access.  A machine m is [io, regs, blk, ptr]; each operator gives  *)
(* the machine after one inb_p/outb_p.  Reading SMBHSTCNT resets the index *)
(* of the block buffer (the "Reset SMBBLKDAT" of the source).              *)
(***************************************************************************)
Machine == [io |-> io, regs |-> regs, blk |-> blk, ptr |-> blkptr]

BlkLen == I2C_SMBUS_BLOCK_MAX

PortValue(m, port) ==
  IF port = SMBBLKDAT THEN m.blk[m.ptr] ELSE m.regs[port]

outb_p(m, v, port) ==
  LET logged == Append(m.io, <<"out", port, v>>) IN
  IF port \in LatchedRegs
    THEN [m EXCEPT !.io = logged, !.regs[port] = v]
  ELSE IF port = SMBBLKDAT
    THEN [m EXCEPT !.io = logged, !.blk[m.ptr] = v,
                   !.ptr = (m.ptr + 1) % BlkLen]
  ELSE [m EXCEPT !.io = logged]

\* inb_p of a register other than the status register.
inb_p(m, port) ==
  LET logged == Append(m.io, <<"in", port, PortValue(m, port)>>) IN
  IF port = SMBHSTCNT THEN [m EXCEPT !.io = logged, !.ptr = 0]
  ELSE IF port = SMBBLKDAT
    THEN [m EXCEPT !.io = logged, !.ptr = (m.ptr + 1) % BlkLen]
  ELSE [m EXCEPT !.io = logged]

\* inb_p(SMBHSTSTS) when the hardware answers v.
inb_sts(m, v) == [m EXCEPT !.io = Append(m.io, <<"in", SMBHSTSTS, v>>)]

SetMachine(m) ==
  /\ io' = m.io
  /\ regs' = m.regs
  /\ blk' = m.blk
  /\ blkptr' = m.ptr

(***************************************************************************)
(* osb4_access, lines 348-402: the switch on the size class loads the      *)
(* address, command and data registers; then the size code is written to   *)
(* SMBHSTCNT.                                                              *)
(***************************************************************************)
\* Mutant: the address is shifted without being cut to seven bits.
AddrByteUnmasked(ad, rw) == Or(ad * 2, And(rw, 1))

\* ((addr & 0x7f) << 1) | (read_write & 0x01)
AddrByte(ad, rw) == Or(And(ad, 127) * 2, And(rw, 1))

\* data->byte, data->word (little endian) and data->block[i] of the union.
DataByte(d) == d[0]
DataWord(d) == d[0] + 256 * d[1]

\* data->word & 0xff and (data->word & 0xff00) >> 8
WordLow(w) == And(w, 255)
\* Mutant: the high byte is masked but not shifted down, so that the byte
\* the port takes of it is 0.
WordHighUnshifted(w) == And(w, 65280) % 256
WordHigh(w) == And(w, 65280) \div 256

\* Mutant: the procedure call is let through.
UnsupportedNever(sz) == FALSE

\* case I2C_SMBUS_PROC_CALL: return -1
Unsupported(sz) == sz = I2C_SMBUS_PROC_CALL

\* The size code each case of the first switch leaves in size; a size no
\* case matches falls out of the switch unchanged.
SizeCode(sz) ==
  CASE sz = I2C_SMBUS_QUICK -> OSB4_QUICK
    [] sz = I2C_SMBUS_BYTE -> OSB4_BYTE
    [] sz = I2C_SMBUS_BYTE_DATA -> OSB4_BYTE_DATA
    [] sz = I2C_SMBUS_WORD_DATA -> OSB4_WORD_DATA
    [] sz = I2C_SMBUS_BLOCK_DATA -> OSB4_BLOCK_DATA
    [] OTHER -> sz

\* Mutant: the length is cut one byte short of the buffer.
BlockLenShort(len) == IF len < 0 THEN 0 ELSE IF len > 31 THEN 31 ELSE len

\* len = data->block[0]; if (len < 0) len = 0; if (len > 32) len = 32;
BlockLen(len) == IF len < 0 THEN 0 ELSE IF len > 32 THEN 32 ELSE len

\* for (i = 1; i <= len; i++) outb_p(data->block[i], SMBBLKDAT);
RECURSIVE BlockOut(_, _, _, _)
BlockOut(m, d, i, len) ==
  IF i > len THEN m ELSE BlockOut(outb_p(m, d[i], SMBBLKDAT), d, i + 1, len)

\* The register writes of the case the size class selects.
LoadRegisters(m, sz, rw, ad, cmd, d) ==
  LET a == outb_p(m, AddrByte(ad, rw), SMBHSTADD)
      ac == outb_p(a, cmd, SMBHSTCMD)
  IN CASE sz = I2C_SMBUS_QUICK -> a
       [] sz = I2C_SMBUS_BYTE ->
            IF rw = I2C_SMBUS_WRITE THEN ac ELSE a
       [] sz = I2C_SMBUS_BYTE_DATA ->
            IF rw = I2C_SMBUS_WRITE
              THEN outb_p(ac, DataByte(d), SMBHSTDAT0) ELSE ac
       [] sz = I2C_SMBUS_WORD_DATA ->
            IF rw = I2C_SMBUS_WRITE
              THEN outb_p(outb_p(ac, WordLow(DataWord(d)), SMBHSTDAT0),
                          WordHigh(DataWord(d)), SMBHSTDAT1)
              ELSE ac
       [] sz = I2C_SMBUS_BLOCK_DATA ->
            IF rw = I2C_SMBUS_WRITE
              THEN LET len == BlockLen(d[0])
                   IN BlockOut(inb_p(outb_p(ac, len, SMBHSTDAT0), SMBHSTCNT),
                               d, 1, len)
              ELSE ac
       [] OTHER -> m

\* outb_p((size & 0x1C) + (ENABLE_INT9 & 1), SMBHSTCNT)
WriteSizeCode(m, code) ==
  outb_p(m, And(code, 28) + And(ENABLE_INT9, 1), SMBHSTCNT)

\* The word on record once the machine is m: kept while data0 and data1 are
\* as they were.
WordKept(m) ==
  IF m.regs[SMBHSTDAT0] = regs[SMBHSTDAT0] /\ m.regs[SMBHSTDAT1] = regs[SMBHSTDAT1]
    THEN wordOut ELSE None

\* A caller enters osb4_access; the per-call history starts afresh.
Access(sizes, rws, addrs, cmds, payloads) ==
  /\ pc = "idle"
  /\ \E sz \in sizes, rw \in rws, ad \in addrs, cmd \in cmds, d \in payloads :
       /\ read_write' = rw
       /\ addr' = ad
       /\ command' = cmd
       /\ data' = d
       /\ dataIn' = d
       /\ sizeIn' = sz
       /\ IF Unsupported(sz)
            THEN /\ size' = sz
                 /\ pc' = "idle"
                 /\ ret' = Some(-1)
                 /\ SetMachine([Machine EXCEPT !.io = <<>>])
                 /\ UNCHANGED wordOut
            ELSE /\ size' = SizeCode(sz)
                 /\ pc' = "t_entry"
                 /\ ret' = None
                 /\ LET m == WriteSizeCode(
                               LoadRegisters([Machine EXCEPT !.io = <<>>],
                                             sz, rw, ad, cmd, d),
                               SizeCode(sz))
                    IN /\ SetMachine(m)
                       /\ wordOut' = IF sz = I2C_SMBUS_WORD_DATA
                                        /\ rw = I2C_SMBUS_WRITE
                                       THEN Some(DataWord(d))
                                       ELSE WordKept(m)
  /\ overrun' = 0
  /\ polls' = 0
  /\ lastPoll' = 0
  /\ tret' = None
  /\ tmark' = 0
  /\ UNCHANGED <<DEBUG, temp, result, timeout>>
  /\ UNCHANGED setupVars

(***************************************************************************)
(* osb4_transaction.                                                       *)
(***************************************************************************)
\* The DEBUG build prints CNT, CMD, ADD, DAT0 and DAT1 on entry and on exit:
\* five port reads (in the order the arguments are written).
DebugDump(m) ==
  inb_p(inb_p(inb_p(inb_p(inb_p(m, SMBHSTCNT), SMBHSTCMD), SMBHSTADD),
              SMBHSTDAT0), SMBHSTDAT1)

\* Mutant: only the in-progress bit counts as busy.
StillBusyBitOnly(t) == And(t, 1) # 0

\* (temp = inb_p(SMBHSTSTS)) != 0x00, lines 265 and 271
StillBusy(t) == t # 0

\* Mutants: the re-read is ignored; a failed re-read clears again.
AfterRereadGoesOn(t) == "t_start"
AfterRereadRetries(t) == IF t # 0 THEN "t_clear" ELSE "t_start"

\* Where line 271 goes: return -1, or on to the start of the transfer.
AfterReread(t) == IF StillBusy(t) THEN "a_ret" ELSE "t_start"

\* bit 6 of SMBHSTCNT starts the transfer
StartBit == 64

\* Mutant: the start bit is written alone, over the size code.
StartTransferBare(m) == outb_p(inb_p(m, SMBHSTCNT), StartBit, SMBHSTCNT)

\* outb_p(inb(SMBHSTCNT) | 0x040, SMBHSTCNT)
StartTransfer(m) ==
  outb_p(inb_p(m, SMBHSTCNT), Or(PortValue(m, SMBHSTCNT), StartBit), SMBHSTCNT)

\* The transfer the hardware runs once started.  A read cycle (bit 0 of the
\* address register) may replace data0, data1 and the block buffer; what it
\* delivers is r: for each of the three None (left as it is) or Some(byte),
\* the block buffer being filled with the bytes seed, seed + 1, ...
HwCycle(m, r) ==
  IF m.regs[SMBHSTADD] % 2 = 1
    THEN [m EXCEPT !.regs[SMBHSTDAT0] = IF r.dat0 = None THEN @ ELSE r.dat0[1],
                   !.regs[SMBHSTDAT1] = IF r.dat1 = None THEN @ ELSE r.dat1[1],
                   !.blk = IF r.blk = None THEN @
                           ELSE [i \in 0..(BlkLen - 1) |-> (r.blk[1] + i) % 256]]
    ELSE m

NoData == [dat0 |-> None, dat1 |-> None, blk |-> None]

\* while ((temp & 0x01) && (timeout++ < MAX_TIMEOUT)): the increment is
\* evaluated exactly when the in-progress bit is set.
InProgress(t) == And(t, 1) # 0
\* Mutant: the ceiling is compared with <=.
PollAgainInclusive(t, n) == InProgress(t) /\ n <= MAX_TIMEOUT
PollAgain(t, n) == InProgress(t) /\ n < MAX_TIMEOUT

\* Mutant: the three error bits are told apart by value, so that a byte with
\* two of them set matches none.
DecodeExclusive(dbg, res, t, n) ==
  IF And(t, 28) \in {16, 8, 4} THEN -1
  ELSE IF n >= MAX_TIMEOUT /\ dbg THEN -1 ELSE res

\* Lines 293-320: result after the checks of the counter and of bits 4, 3, 2.
\* The assignment under "timeout >= MAX_TIMEOUT" is inside #ifdef DEBUG.
Decode(dbg, res, t, n) ==
  LET r1 == IF n >= MAX_TIMEOUT /\ dbg THEN -1 ELSE res
      r2 == IF And(t, 16) # 0 THEN -1 ELSE r1
      r3 == IF And(t, 8) # 0 THEN -1 ELSE r2
  IN IF And(t, 4) # 0 THEN -1 ELSE r3

\* Lines 257-265: entry, and the first read of the status register.
T_BusyCheck(vals) ==
  /\ pc = "t_entry"
  /\ \E v \in vals :
       /\ temp' = v
       /\ SetMachine(inb_sts(IF DEBUG THEN DebugDump(Machine) ELSE Machine, v))
       /\ pc' = IF StillBusy(v) THEN "t_clear" ELSE "t_start"
  /\ result' = 0
  /\ timeout' = 0
  /\ UNCHANGED <<wordOut, DEBUG, size, read_write, addr, command, data, dataIn, sizeIn,
                 overrun,                  polls, lastPoll, tret, tmark, ret>>
  /\ UNCHANGED setupVars

\* Line 270: outb_p(temp, SMBHSTSTS)
T_Clear ==
  /\ pc = "t_clear"
  /\ SetMachine(outb_p(Machine, temp, SMBHSTSTS))
  /\ pc' = "t_reread"
  /\ UNCHANGED <<wordOut, DEBUG, size, read_write, addr, command, data, dataIn, sizeIn,
                 overrun,                  temp, result, timeout, polls, lastPoll, tret, tmark, ret>>
  /\ UNCHANGED setupVars

\* Lines 271-281: the re-read; still non-zero returns -1.
T_Reread(vals) ==
  /\ pc = "t_reread"
  /\ \E v \in vals :
       /\ temp' = v
       /\ SetMachine(inb_sts(Machine, v))
       /\ pc' = AfterReread(v)
       /\ IF AfterReread(v) = "a_ret"
            THEN tret' = Some(-1) /\ tmark' = Len(io) + 1
            ELSE UNCHANGED <<tret, tmark>>
  /\ UNCHANGED <<wordOut, DEBUG, size, read_write, addr, command, data, dataIn, sizeIn,
                 overrun,                  result, timeout, polls, lastPoll, ret>>
  /\ UNCHANGED setupVars

\* Line 284: the start bit; the hardware runs the transfer.
T_Start(replies) ==
  /\ pc = "t_start"
  /\ \E r \in replies :
       LET m == HwCycle(StartTransfer(Machine), r)
       IN SetMachine(m) /\ wordOut' = WordKept(m)
  /\ pc' = "t_poll"
  /\ UNCHANGED <<DEBUG, size, read_write, addr, command, data, dataIn, sizeIn,
                 overrun, temp, result, timeout, polls, lastPoll, tret, tmark, ret>>
  /\ UNCHANGED setupVars

\* Lines 287-290: one iteration of the do-while loop and its test.
T_Poll(vals) ==
  /\ pc = "t_poll"
  /\ \E v \in vals :
       /\ temp' = v
       /\ lastPoll' = v
       /\ timeout' = IF InProgress(v) THEN timeout + 1 ELSE timeout
       /\ pc' = IF PollAgain(v, timeout) THEN "t_poll" ELSE "t_decode"
  /\ polls' = polls + 1
  /\ UNCHANGED <<wordOut, DEBUG, size, read_write, addr, command, data, dataIn, sizeIn,
                 overrun,                  result, tret, tmark, ret, regs, blk, blkptr, io>>
  /\ UNCHANGED setupVars

\* Lines 292-320
T_Decode ==
  /\ pc = "t_decode"
  /\ result' = Decode(DEBUG, result, temp, timeout)
  /\ pc' = "t_cleanup"
  /\ UNCHANGED <<wordOut, DEBUG, size, read_write, addr, command, data, dataIn, sizeIn,
                 overrun,                  temp, timeout, polls, lastPoll, tret, tmark, ret, regs, blk,
                 blkptr, io>>
  /\ UNCHANGED setupVars

\* Mutant: the status register is never cleared at the end.
CleanupNever(v) == FALSE

\* Line 322: if (inb_p(SMBHSTSTS) != 0x00)
CleanupNeeded(v) == v # 0

T_CleanupRead(vals) ==
  /\ pc = "t_cleanup"
  /\ \E v \in vals :
       /\ SetMachine(inb_sts(Machine, v))
       /\ pc' = IF CleanupNeeded(v) THEN "t_cleanup_write" ELSE "t_final"
  /\ UNCHANGED <<wordOut, DEBUG, size, read_write, addr, command, data, dataIn, sizeIn,
                 overrun,                  temp, result, timeout, polls, lastPoll, tret, tmark, ret>>
  /\ UNCHANGED setupVars

\* Line 323: outb_p(inb(SMBHSTSTS), SMBHSTSTS), a second read of the register
T_CleanupWrite(vals) ==
  /\ pc = "t_cleanup_write"
  /\ \E v \in vals : SetMachine(outb_p(inb_sts(Machine, v), v, SMBHSTSTS))
  /\ pc' = "t_final"
  /\ UNCHANGED <<wordOut, DEBUG, size, read_write, addr, command, data, dataIn, sizeIn,
                 overrun,                  temp, result, timeout, polls, lastPoll, tret, tmark, ret>>
  /\ UNCHANGED setupVars

\* Lines 325-338: the last read of the status register, and return result.
T_Final(vals) ==
  /\ pc = "t_final"
  /\ \E v \in vals :
       LET m == IF DEBUG THEN DebugDump(inb_sts(Machine, v))
                ELSE inb_sts(Machine, v)
       IN /\ temp' = v
          /\ SetMachine(m)
          /\ tmark' = Len(m.io)
  /\ tret' = Some(result)
  /\ pc' = "a_ret"
  /\ UNCHANGED <<wordOut, DEBUG, size, read_write, addr, command, data, dataIn, sizeIn,
                 overrun,                  result, timeout, polls, lastPoll, ret>>
  /\ UNCHANGED setupVars

(***************************************************************************)
(* osb4_access, lines 404-432: after osb4_transaction.                     *)
(***************************************************************************)
\* for (i = 1; i <= data->block[0]; i++) data->block[i] = inb_p(SMBBLKDAT);
\* a store at i > I2C_SMBUS_BLOCK_MAX falls outside the union: it is counted.
RECURSIVE BlockIn(_, _)
BlockIn(st, i) ==
  IF i > st.d[0] THEN st
  ELSE LET v == PortValue(st.m, SMBBLKDAT)
           m2 == inb_p(st.m, SMBBLKDAT)
       IN BlockIn(IF i <= I2C_SMBUS_BLOCK_MAX
                    THEN [m |-> m2, d |-> [st.d EXCEPT ![i] = v], over |-> st.over]
                    ELSE [m |-> m2, d |-> st.d, over |-> st.over + 1],
                  i + 1)

\* The second switch: the result registers are read into *data.  first is
\* the operand of the word-data sum the compiler evaluates first.
Readback(m, code, d, first) ==
  CASE code = OSB4_BYTE \/ code = OSB4_BYTE_DATA ->
         [m |-> inb_p(m, SMBHSTDAT0),
          d |-> [d EXCEPT ![0] = PortValue(m, SMBHSTDAT0)], over |-> 0]
    [] code = OSB4_WORD_DATA ->
         LET w == PortValue(m, SMBHSTDAT0) + PortValue(m, SMBHSTDAT1) * 256
         IN [m |-> IF first = SMBHSTDAT0
                     THEN inb_p(inb_p(m, SMBHSTDAT0), SMBHSTDAT1)
                     ELSE inb_p(inb_p(m, SMBHSTDAT1), SMBHSTDAT0),
             d |-> [d EXCEPT ![0] = w % 256, ![1] = (w \div 256) % 256],
             over |-> 0]
    [] code = OSB4_BLOCK_DATA ->
         BlockIn([m |-> inb_p(inb_p(m, SMBHSTDAT0), SMBHSTCNT),
                  d |-> [d EXCEPT ![0] = PortValue(m, SMBHSTDAT0)],
                  over |-> 0], 1)
    [] OTHER -> [m |-> m, d |-> d, over |-> 0]

\* Mutant: the result of osb4_transaction is not looked at.
TransactionFailedNever(r) == FALSE

\* if (osb4_transaction()) return -1;
TransactionFailed(r) == r # 0

\* if ((read_write == I2C_SMBUS_WRITE) || (size == OSB4_QUICK)) return 0;
NoReadback(rw, code) == rw = I2C_SMBUS_WRITE \/ code = OSB4_QUICK

A_Return ==
  /\ pc = "a_ret"
  /\ pc' = "idle"
  /\ IF TransactionFailed(tret[1])
       THEN /\ ret' = Some(-1)
            /\ UNCHANGED <<data, overrun, regs, blk, blkptr, io>>
       ELSE /\ ret' = Some(0)
            /\ IF NoReadback(read_write, size)
                 THEN UNCHANGED <<data, overrun, regs, blk, blkptr, io>>
                 ELSE \E first \in IF size = OSB4_WORD_DATA
                                     THEN {SMBHSTDAT0, SMBHSTDAT1}
                                     ELSE {SMBHSTDAT0} :
                        LET st == Readback(Machine, size, data, first)
                        IN /\ SetMachine(st.m)
                           /\ data' = st.d
                           /\ overrun' = st.over
  /\ UNCHANGED <<wordOut, DEBUG, size, read_write, addr, command, dataIn, sizeIn, temp, result,
                 timeout, polls, lastPoll, tret, tmark>>
  /\ UNCHANGED setupVars

(***************************************************************************)
(* The life cycle: i2c_osb4_init, osb4_setup and osb4_cleanup.  plat logs  *)
(* the calls into the platform (PCI configuration space, I/O regions, the  *)
(* i2c core) with what they returned, from the last entry into             *)
(* i2c_osb4_init or cleanup_module on.  Another driver may reserve or      *)
(* release a free window at any time.                                      *)
(***************************************************************************)
\* <linux/errno.h>
ENODEV == 19
EBUSY == 16
ENOMEM == 12

\* The configuration registers osb4_setup uses (offsets 0x90 and 0xD2).
SMBBA == "SMBBA"
SMBHSTCFG == "SMBHSTCFG"

\* do ... while (OSB4_dev && PCI_FUNC(OSB4_dev->devfn) != 0): the first
\* device of function 0, if there is one.
FoundFunction0(fns) == \E i \in 1..Len(fns) : fns[i] = 0

\* Lines 172-179: the base address, forced or read from SMBBA.
BaseAddress(faddr, cfg) ==
  IF faddr # 0 THEN And(faddr, 65520) ELSE And(cfg[SMBBA], 65520)

\* check_region(base, 8): non-zero when the window is taken.
RegionTaken(rg, base) == rg[base] # "free"

\* Mutant: an override relocates the controller only when it is disabled.
EnableWritesIfDisabled(t, faddr, frc, base) ==
  IF faddr # 0 /\ And(t, 1) = 0
    THEN << <<"pci_write_config_byte", SMBHSTCFG, And(t, 254)>>,
            <<"pci_write_config_word", SMBBA, base>>,
            <<"pci_write_config_byte", SMBHSTCFG, Or(t, 1)>> >>
  ELSE IF And(t, 1) = 0 /\ frc # 0
    THEN << <<"pci_write_config_byte", SMBHSTCFG, Or(t, 1)>> >>
  ELSE <<>>

\* Lines 189-216 as a function of temp, force_addr and force: the
\* configuration writes made, in order, and whether setup goes on.
EnableWrites(t, faddr, frc, base) ==
  IF faddr # 0
    THEN << <<"pci_write_config_byte", SMBHSTCFG, And(t, 254)>>,
            <<"pci_write_config_word", SMBBA, base>>,
            <<"pci_write_config_byte", SMBHSTCFG, Or(t, 1)>> >>
  ELSE IF And(t, 1) = 0 /\ frc # 0
    THEN << <<"pci_write_config_byte", SMBHSTCFG, Or(t, 1)>> >>
  ELSE <<>>

\* Mutant: a disabled controller is accepted.
NotEnabledNever(t, faddr, frc) == FALSE

\* else branch of line 210: the controller is disabled and nothing forces it
NotEnabled(t, faddr, frc) == faddr = 0 /\ And(t, 1) = 0 /\ frc = 0

\* The configuration space after the writes ws.
RECURSIVE ApplyWrites(_, _)
ApplyWrites(cfg, ws) ==
  IF ws = <<>> THEN cfg
  ELSE ApplyWrites([cfg EXCEPT ![Head(ws)[2]] = Head(ws)[3]], Tail(ws))

\* osb4_cleanup on [init, adapter, regions, plat], i2c_del_adapter answering
\* delOk: the state after it, with its return value in res.
osb4_cleanup(st, base, delOk) ==
  LET unreg ==
        IF st.init >= 2
          THEN IF delOk
                 THEN [st EXCEPT !.init = @ - 1, !.adapter = FALSE,
                          !.plat = Append(@, <<"i2c_del_adapter", 0, 0>>)]
                 ELSE [st EXCEPT !.res = -EBUSY,
                          !.plat = Append(@, <<"i2c_del_adapter", 0, -EBUSY>>)]
          ELSE st
  IN IF unreg.res # 0 THEN unreg
     ELSE IF unreg.init >= 1
       THEN [unreg EXCEPT !.init = @ - 1, !.regions[base] = "free",
                !.plat = Append(@, <<"release_region", base, 0>>)]
     ELSE unreg

CleanupState == [init |-> osb4_initialized, adapter |-> adapter,
                 regions |-> regions, plat |-> plat, res |-> 0]

SetCleanup(st) ==
  /\ osb4_initialized' = st.init
  /\ adapter' = st.adapter
  /\ regions' = st.regions
  /\ plat' = st.plat

\* insmod (when the module is not loaded) and lines 452-461 of i2c_osb4_init.
I_Init(forces, faddrs) ==
  /\ spc \in {"unloaded", "loaded"}
  /\ IF spc = "unloaded"
       THEN /\ force' \in forces
            /\ force_addr' \in faddrs
            /\ osb4_smba' = 0
            /\ osb4_initialized' = 0
            /\ spc' = "s_probe"
            /\ ires' = None
       ELSE /\ UNCHANGED <<force, force_addr, osb4_smba>>
            /\ IF osb4_initialized # 0
                 THEN /\ ires' = Some(-EBUSY)
                      /\ UNCHANGED <<osb4_initialized, spc>>
                 ELSE /\ osb4_initialized' = 0
                      /\ spc' = "s_probe"
                      /\ ires' = None
  /\ plat' = <<>>
  /\ sret' = None
  /\ UNCHANGED <<stemp, pci_bus, devfns, pcicfg, regions, adapter>>
  /\ UNCHANGED busVars

\* i2c_osb4_init, lines 462-466: osb4_setup failed with res.
SetupFailed(res, log) ==
  /\ sret' = Some(res)
  /\ ires' = Some(res)
  /\ SetCleanup(osb4_cleanup([CleanupState EXCEPT !.plat = log], osb4_smba', TRUE))
  /\ spc' = IF osb4_initialized' = 0 /\ ~adapter' THEN "unloaded" ELSE "loaded"

\* osb4_setup, lines 149-187: the PCI bus, the device, the base address and
\* check_region.
S_Probe ==
  /\ spc = "s_probe"
  /\ IF ~pci_bus \/ ~FoundFunction0(devfns)
       THEN /\ UNCHANGED <<osb4_smba, force>>
            /\ SetupFailed(-ENODEV, plat)
       ELSE LET base == BaseAddress(force_addr, pcicfg)
                log == Append(plat, <<"check_region", base,
                                      IF RegionTaken(regions, base) THEN 1 ELSE 0>>)
            IN /\ osb4_smba' = base
               /\ force' = IF force_addr # 0 THEN 0 ELSE force
               /\ IF RegionTaken(regions, base)
                    THEN SetupFailed(-ENODEV, log)
                    ELSE /\ spc' = "s_enable"
                         /\ plat' = log
                         /\ UNCHANGED <<osb4_initialized, sret, ires, regions,
                                        adapter>>
  /\ UNCHANGED <<force_addr, stemp, pci_bus, devfns, pcicfg>>
  /\ UNCHANGED busVars

\* osb4_setup, lines 189-216: the enable bit, forced or required.
S_Enable ==
  /\ spc = "s_enable"
  /\ LET t == pcicfg[SMBHSTCFG]
         ws == EnableWrites(t, force_addr, force, osb4_smba)
         log == Append(plat, <<"pci_read_config_byte", SMBHSTCFG, t>>) \o ws
     IN /\ stemp' = t
        /\ pcicfg' = ApplyWrites(pcicfg, ws)
        /\ IF NotEnabled(t, force_addr, force)
             THEN SetupFailed(-ENODEV, log)
             ELSE /\ spc' = "s_reserve"
                  /\ plat' = log
                  /\ UNCHANGED <<osb4_initialized, sret, ires, regions, adapter>>
  /\ UNCHANGED <<force, force_addr, osb4_smba, pci_bus, devfns>>
  /\ UNCHANGED busVars

\* osb4_setup, lines 218-240: request_region, whose result is not looked
\* at, and return 0; i2c_osb4_init, line 468: osb4_initialized++.
S_Reserve ==
  /\ spc = "s_reserve"
  /\ LET granted == ~RegionTaken(regions, osb4_smba)
     IN /\ regions' = IF granted THEN [regions EXCEPT ![osb4_smba] = "osb4"]
                      ELSE regions
        /\ plat' = Append(plat, <<"request_region", osb4_smba,
                                  IF granted THEN 1 ELSE 0>>)
  /\ sret' = Some(0)
  /\ osb4_initialized' = osb4_initialized + 1
  /\ spc' = "i_register"
  /\ UNCHANGED <<force, force_addr, osb4_smba, stemp, ires, pci_bus, devfns,
                 pcicfg, adapter>>
  /\ UNCHANGED busVars

\* i2c_osb4_init, lines 469-479: i2c_add_adapter, which may fail.
I_Register ==
  /\ spc = "i_register"
  /\ \E ok \in BOOLEAN :
       IF ok
         THEN /\ adapter' = TRUE
              /\ osb4_initialized' = osb4_initialized + 1
              /\ plat' = Append(plat, <<"i2c_add_adapter", 0, 0>>)
              /\ ires' = Some(0)
              /\ spc' = "loaded"
              /\ UNCHANGED regions
         ELSE LET st == osb4_cleanup(
                          [CleanupState EXCEPT
                             !.plat = Append(plat, <<"i2c_add_adapter", 0, -ENOMEM>>)],
                          osb4_smba, TRUE)
              IN /\ SetCleanup(st)
                 /\ ires' = Some(-ENOMEM)
                 /\ spc' = "unloaded"
  /\ UNCHANGED <<force, force_addr, osb4_smba, stemp, sret, pci_bus, devfns, pcicfg>>
  /\ UNCHANGED busVars

\* cleanup_module: osb4_cleanup, i2c_del_adapter failing or not.
Cleanup ==
  /\ spc \in {"unloaded", "loaded"}
  /\ \E delOk \in BOOLEAN :
       LET st == osb4_cleanup([CleanupState EXCEPT !.plat = <<>>], osb4_smba, delOk)
       IN /\ SetCleanup(st)
          /\ spc' = IF st.res = 0 THEN "unloaded" ELSE spc
  /\ UNCHANGED <<force, force_addr, osb4_smba, stemp, sret, ires, pci_bus, devfns,
                 pcicfg>>
  /\ UNCHANGED busVars

\* Another driver takes a free window, or gives its own back.
OtherDriver(bases) ==
  /\ \E b \in bases :
       /\ regions[b] # "osb4"
       /\ regions' = [regions EXCEPT ![b] = IF @ = "free" THEN "other" ELSE "free"]
  /\ UNCHANGED <<force, force_addr, osb4_smba, osb4_initialized, spc, stemp, sret,
                 ires, pci_bus, devfns, pcicfg, adapter, plat>>
  /\ UNCHANGED busVars

(***************************************************************************)
(* The inputs: the payloads callers pass and the values the hardware       *)
(* presents.                                                               *)
(***************************************************************************)
DataIndex == 0..I2C_SMBUS_BLOCK_MAX

\* A payload whose first byte (the byte, the low byte of the word, the block
\* length) is b0 and whose byte i is fill + i.
Payload(b0, fill) ==
  [i \in DataIndex |-> IF i = 0 THEN b0 ELSE (fill + i) % 256]

InitBus ==
  /\ DEBUG \in BOOLEAN
  /\ pc = "idle"
  /\ size = 0
  /\ read_write = 0
  /\ addr = 0
  /\ command = 0
  /\ data = Payload(0, 0)
  /\ dataIn = Payload(0, 0)
  /\ sizeIn = 0
  /\ overrun = 0
  /\ temp = 0
  /\ result = 0
  /\ timeout = 0
  /\ polls = 0
  /\ lastPoll = 0
  /\ tret = None
  /\ tmark = 0
  /\ ret = None
  /\ regs = [r \in LatchedRegs |-> 0]
  /\ blk = [i \in 0..(BlkLen - 1) |-> 0]
  /\ blkptr = 0
  /\ wordOut = None
  /\ io = <<>>

(***************************************************************************)
(* Spec: the transaction engine.  One kind of request (a byte read), the   *)
(* status register free to read any of StsPre before the start bit, any of *)
(* StsPoll in the polling loop and any of StsPost in the cleanup.          *)
(***************************************************************************)
\* The payload of the byte read: nothing in it is sent.
BytePayloads == {Payload(0, 0)}

StsPre == {0, 2, 4}
StsPoll == {0, 1, 4, 5}
StsPost == {0, 2, 4}

\* The platform the driver is loaded on.
SmbbaReset == 1409
ForcedAddr == 4101
Bases == {And(SmbbaReset, 65520), And(ForcedAddr, 65520)}

\* The driver loaded at the base address the firmware programmed.
DriverLoaded ==
  /\ force = 0
  /\ force_addr = 0
  /\ osb4_smba = And(SmbbaReset, 65520)
  /\ osb4_initialized = 2
  /\ spc = "loaded"
  /\ stemp = 1
  /\ sret = Some(0)
  /\ ires = Some(0)
  /\ pci_bus = TRUE
  /\ devfns = <<0>>
  /\ pcicfg = [r \in {SMBBA, SMBHSTCFG} |-> IF r = SMBBA THEN SmbbaReset ELSE 1]
  /\ regions = [b \in Bases |-> IF b = And(SmbbaReset, 65520) THEN "osb4" ELSE "free"]
  /\ adapter = TRUE
  /\ plat = <<>>

Init == InitBus /\ DriverLoaded

Next ==
  \/ Access({I2C_SMBUS_BYTE}, {I2C_SMBUS_READ}, {80}, {0}, BytePayloads)
  \/ T_BusyCheck(StsPre)
  \/ T_Clear
  \/ T_Reread(StsPre)
  \/ T_Start({NoData})
  \/ T_Poll(StsPoll)
  \/ T_Decode
  \/ T_CleanupRead(StsPost)
  \/ T_CleanupWrite(StsPost)
  \/ T_Final(StsPost)
  \/ A_Return

Spec == Init /\ [][Next]_vars

(***************************************************************************)
(* SpecLive: the same engine under fewer status values, with the fairness  *)
(* of sequential code: a call that can take its next step takes it (the    *)
(* pause of the polling loop returns).  New calls need not arrive.         *)
(***************************************************************************)
LivePre == {0, 2}
LivePoll == {0, 1}
LivePost == {0, 2}

TransactionStep ==
  \/ T_BusyCheck(LivePre)
  \/ T_Clear
  \/ T_Reread(LivePre)
  \/ T_Start({NoData})
  \/ T_Poll(LivePoll)
  \/ T_Decode
  \/ T_CleanupRead(LivePost)
  \/ T_CleanupWrite(LivePost)
  \/ T_Final(LivePost)

NextLive ==
  \/ Access({I2C_SMBUS_BYTE}, {I2C_SMBUS_READ}, {80}, {0}, BytePayloads)
  \/ TransactionStep
  \/ A_Return

SpecLive == Init /\ [][NextLive]_vars /\ WF_vars(TransactionStep)

(***************************************************************************)
(* SpecSetup: the life cycle on every platform InitSetup admits, under     *)
(* every choice of the two insmod parameters.                              *)
(***************************************************************************)
InitSetup ==
  /\ InitBus
  /\ force = 0
  /\ force_addr = 0
  /\ osb4_smba = 0
  /\ osb4_initialized = 0
  /\ spc = "unloaded"
  /\ stemp = 0
  /\ sret = None
  /\ ires = None
  /\ pci_bus \in BOOLEAN
  /\ devfns \in {<<>>, <<1>>, <<0>>, <<1, 0>>}
  /\ pcicfg \in {[r \in {SMBBA, SMBHSTCFG} |-> IF r = SMBBA THEN SmbbaReset ELSE c] :
                   c \in {0, 1, 8, 9}}
  /\ regions = [b \in Bases |-> "free"]
  /\ adapter = FALSE
  /\ plat = <<>>

NextSetup ==
  \/ I_Init({0, 1}, {0, ForcedAddr})
  \/ S_Probe
  \/ S_Enable
  \/ S_Reserve
  \/ I_Register
  \/ Cleanup
  \/ OtherDriver(Bases)

SpecSetup == InitSetup /\ [][NextSetup]_vars

(***************************************************************************)
(* Reading the log.                                                        *)
(***************************************************************************)
IsSts(e) == e[2] = SMBHSTSTS
IsStsRead(e) == e[1] = "in" /\ e[2] = SMBHSTSTS
IsStsWrite(e) == e[1] = "out" /\ e[2] = SMBHSTSTS
IsStart(e) == e[1] = "out" /\ e[2] = SMBHSTCNT /\ (e[3] \div StartBit) % 2 = 1

\* How often the start bit was written in this call, and where first.
StartIdx == {i \in 1..Len(io) : IsStart(io[i])}
StartWrites == Cardinality(StartIdx)
FirstStart ==
  LET idx == StartIdx
  IN IF idx = {} THEN 0 ELSE CHOOSE i \in idx : \A j \in idx : i <= j

\* The status accesses before the first write of the start bit (all of them
\* when it was never written), and those after it.
PreSts ==
  LET n == FirstStart
  IN SelectSeq(IF n = 0 THEN io ELSE SubSeq(io, 1, n - 1), IsSts)
PostSts ==
  LET n == FirstStart
  IN SelectSeq(IF n = 0 THEN <<>> ELSE SubSeq(io, n + 1, Len(io)), IsSts)

Returned == tret # None

\* The busy check failed: the first read and the re-read after the clear
\* were both non-zero.
BusyTwice ==
  LET pre == PreSts
  IN /\ Len(pre) >= 3
     /\ IsStsRead(pre[1]) /\ pre[1][3] # 0
     /\ IsStsWrite(pre[2])
     /\ IsStsRead(pre[3]) /\ pre[3][3] # 0

\* C1: when the status register is non-zero at entry and still non-zero at
\* the re-read after the write-back, osb4_transaction returns -1 and the call
\* never writes the start bit.
C1_BusyFailNeverStarts ==
  BusyTwice => /\ tret = Some(-1)
               /\ StartWrites = 0
               /\ pc \in {"a_ret", "idle"}
               /\ (pc = "idle" => ret = Some(-1))

C1_Witness == pc = "idle" /\ ret = Some(-1) /\ BusyTwice

\* The polling loop ended at the ceiling with the in-progress bit still set.
EndedAtCeiling ==
  /\ pc \notin {"t_entry", "t_clear", "t_reread", "t_start", "t_poll"}
  /\ polls > 0
  /\ timeout >= MAX_TIMEOUT
  /\ InProgress(lastPoll)

\* C2: whenever the polling loop ends at the ceiling with the in-progress
\* bit still set, osb4_transaction returns -1, also when bits 4, 3 and 2 of
\* the last status byte are clear.
C2_TimeoutFails == (Returned /\ EndedAtCeiling) => tret = Some(-1)

\* C3 as stated: the polling loop makes at most 500 iterations.
C3_AtMost500 == polls <= MAX_TIMEOUT

\* C3: whatever the hardware answers, the polling loop makes at most
\* MAX_TIMEOUT + 1 = 501 iterations, and every call of osb4_transaction
\* returns.
C3_PollingTerminates ==
  /\ [](polls <= MAX_TIMEOUT + 1)
  /\ (pc = "t_entry") ~> (pc = "a_ret")

\* The in-progress bit never cleared and the call returned.
C3_Witness ==
  /\ Returned /\ pc = "idle"
  /\ polls = MAX_TIMEOUT + 1
  /\ InProgress(lastPoll)

\* After the start bit: the status register was read and, when that read was
\* non-zero, written with the value the read just before the write returned.
CleanupDone ==
  LET post == PostSts
  IN /\ Len(post) >= 1
     /\ IsStsRead(post[1])
     /\ post[1][3] # 0 =>
          \E j \in 2..Len(post) :
            /\ IsStsWrite(post[j])
            /\ IsStsRead(post[j - 1])
            /\ post[j][3] = post[j - 1][3]

\* Every write to the status register writes what the status read just
\* before it returned.
WritesBackWhatWasRead ==
  LET s == SelectSeq(io, IsSts)
  IN \A j \in 1..Len(s) :
       IsStsWrite(s[j]) => j > 1 /\ IsStsRead(s[j - 1]) /\ s[j][3] = s[j - 1][3]

\* C4 as stated: every return of osb4_transaction, UnrecoverableBusy
\* included, comes after the final cleanup.
C4_CleanupOnEveryReturn == Returned => CleanupDone

\* C4: every call of osb4_transaction that writes the start bit, whatever
\* else its outcome, re-reads the status register before it returns and, when
\* that read is non-zero, writes back the value of a fresh read of the
\* register; every write to the status register writes back the value just
\* read, never a constant.  A call that fails the busy check returns without
\* this cleanup.
C4_CleanupAfterStart ==
  /\ Returned =>
       IF StartWrites > 0 THEN CleanupDone
       ELSE tret = Some(-1) /\ PostSts = <<>>
  /\ WritesBackWhatWasRead

\* A cleanup whose write-back differs from the read that triggered it.
C4_Witness ==
  /\ Returned /\ pc = "idle"
  /\ LET post == PostSts
     IN /\ Len(post) >= 3
        /\ post[1][3] # 0
        /\ IsStsWrite(post[3])
        /\ post[3][3] # post[1][3]

\* The last status read before the start bit, and the last of the call.
LastPreRead == LET pre == PreSts IN pre[Len(pre)]
FinalRead == LET post == PostSts IN post[Len(post)]

\* C5 as stated: success means the status register read zero both at the
\* last read before the start bit and at the last read of the call.
C5_ZeroBeforeAndAfter ==
  (tret = Some(0)) =>
    /\ StartWrites > 0
    /\ LastPreRead = <<"in", SMBHSTSTS, 0>>
    /\ FinalRead = <<"in", SMBHSTSTS, 0>>

\* C5: success means the status register read zero at the last read before
\* the start bit (a non-zero status there makes the call fail without
\* starting); the read after the cleanup does not enter the result, which is
\* the one decoded from the last status byte of the polling loop.
C5_ZeroBeforeStart ==
  Returned =>
    IF StartWrites > 0
      THEN /\ LastPreRead = <<"in", SMBHSTSTS, 0>>
           /\ tret = Some(0) <=> /\ And(lastPoll, 28) = 0
                                 /\ ~(DEBUG /\ timeout >= MAX_TIMEOUT)
      ELSE /\ tret = Some(-1)
           /\ IsStsRead(LastPreRead) /\ LastPreRead[3] # 0

\* A successful return whose last status read was non-zero.
C5_Witness ==
  /\ tret = Some(0) /\ pc = "idle" /\ ret = Some(0)
  /\ IsStsRead(FinalRead) /\ FinalRead[3] # 0

\* The busy check is over: the start bit is written or the call has failed.
BusyCheckOver == StartWrites > 0 \/ Returned

\* C6: a first status read of 0 is followed by no status write before the
\* start bit; a non-zero first read is followed by exactly one write-back
\* and one re-read before the start bit or the failure; the start bit is
\* written at most once per call.
C6_OneRecoveryAttempt ==
  LET n == StartWrites
      pre == PreSts
  IN /\ n <= 1
     /\ (n > 0 \/ Returned) =>
          /\ Len(pre) >= 1 /\ IsStsRead(pre[1])
          /\ pre[1][3] = 0 => Len(pre) = 1
          /\ pre[1][3] # 0 =>
               /\ Len(pre) = 3
               /\ pre[2] = <<"out", SMBHSTSTS, pre[1][3]>>
               /\ IsStsRead(pre[3])
               /\ (n = 1 <=> pre[3][3] = 0)

\* A call that cleared a non-zero status once and then started the transfer.
C6_Witness ==
  /\ pc = "idle"
  /\ StartWrites = 1
  /\ LET pre == PreSts IN Len(pre) = 3 /\ pre[1][3] # 0

(***************************************************************************)
(* SpecAccess: osb4_access over every size class, the procedure call, and  *)
(* two sizes no case of the first switch matches; both directions.  The    *)
(* hardware never reports the transfer in progress here, so that a call    *)
(* takes one poll, and the cleanup finds the status register clear or      *)
(* clears it at once.                                                      *)
(***************************************************************************)
AccSizes == 0..(I2C_SMBUS_BLOCK_DATA + 1) \cup {OSB4_BYTE_DATA}
AccDirs == {I2C_SMBUS_WRITE, I2C_SMBUS_READ}
AccAddrs == {80}
AccCmds == {7}
AccPayloads == {Payload(2, 16)}
AccPre == {0, 2}
AccPoll == {0, 4}
AccReplies == {NoData, [dat0 |-> Some(33), dat1 |-> Some(1), blk |-> Some(100)]}

NextAccess ==
  \/ Access(AccSizes, AccDirs, AccAddrs, AccCmds, AccPayloads)
  \/ T_BusyCheck(AccPre)
  \/ T_Clear
  \/ T_Reread(AccPre)
  \/ T_Start(AccReplies)
  \/ T_Poll(AccPoll)
  \/ T_Decode
  \/ T_CleanupRead({0, 2})
  \/ T_CleanupWrite({2})
  \/ T_Final({0})
  \/ A_Return

SpecAccess == Init /\ [][NextAccess]_vars

\* The port accesses of osb4_access after osb4_transaction returned.
AfterTransaction == SubSeq(io, tmark + 1, Len(io))
ReadsResult(log) ==
  \E i \in 1..Len(log) : log[i][1] = "in" /\ log[i][2] \in ResultRegs

\* osb4_access has returned from a call that ran osb4_transaction.
AccessDone == pc = "idle" /\ ret # None /\ Returned

\* C7: when osb4_transaction reports failure, osb4_access returns -1, reads
\* no result register after that report and leaves *data as passed; when it
\* reports success, a quick transfer and every write-direction transfer
\* return 0 with no result register read and *data as passed.
C7_NoReadback ==
  AccessDone =>
    /\ tret # Some(0) =>
         /\ ret = Some(-1)
         /\ ~ReadsResult(AfterTransaction)
         /\ data = dataIn
    /\ (tret = Some(0) /\ (read_write = I2C_SMBUS_WRITE \/ sizeIn = I2C_SMBUS_QUICK)) =>
         /\ ret = Some(0)
         /\ ~ReadsResult(AfterTransaction)
         /\ data = dataIn

\* A failed read-direction transfer of a size class that has a result.
C7_Witness ==
  /\ AccessDone
  /\ tret = Some(-1)
  /\ read_write = I2C_SMBUS_READ
  /\ sizeIn = I2C_SMBUS_BLOCK_DATA
  /\ StartWrites = 1

\* C8: a procedure-call request returns -1 at once: no port of the
\* controller is read or written, osb4_transaction is not entered and the
\* start bit is not written.
C8_ProcCallRejected ==
  (sizeIn = I2C_SMBUS_PROC_CALL /\ (ret # None \/ pc # "idle")) =>
    /\ pc = "idle"
    /\ ret = Some(-1)
    /\ io = <<>>
    /\ tret = None
    /\ polls = 0

\* A procedure call refused after a call that used the controller.
C8_Witness ==
  /\ sizeIn = I2C_SMBUS_PROC_CALL
  /\ ret = Some(-1)
  /\ pc = "idle"
  /\ regs[SMBHSTCNT] # 0

(***************************************************************************)
(* Reading the log of platform calls.                                      *)
(***************************************************************************)
Called(name) == \E i \in 1..Len(plat) : plat[i][1] = name
ConfigWrites ==
  SelectSeq(plat, LAMBDA e : e[1] \in {"pci_write_config_byte",
                                       "pci_write_config_word"})

\* osb4_setup read the host configuration and found the enable bit clear,
\* with neither insmod parameter set.
FoundDisabled ==
  /\ force = 0
  /\ force_addr = 0
  /\ \E i \in 1..Len(plat) :
       /\ plat[i][1] = "pci_read_config_byte"
       /\ plat[i][2] = SMBHSTCFG
       /\ plat[i][3] % 2 = 0

\* C9: with force = 0 and force_addr = 0, when osb4_setup finds the enable
\* bit clear it returns -ENODEV, writes nothing to the configuration space
\* and does not reserve the I/O window.
C9_DisabledFails ==
  FoundDisabled =>
    /\ sret = Some(-ENODEV)
    /\ ires = Some(-ENODEV)
    /\ ConfigWrites = <<>>
    /\ ~Called("request_region")
    /\ regions[osb4_smba] # "osb4"
    /\ osb4_initialized = 0

\* The controller was found, its window was free, and it was disabled.
C9_Witness ==
  /\ FoundDisabled
  /\ Called("check_region")
  /\ spc = "unloaded"
  /\ sret = Some(-ENODEV)

\* request_region was called and did not grant the window.
ReservationFailed ==
  \E i \in 1..Len(plat) : plat[i][1] = "request_region" /\ plat[i][3] = 0

\* C10: when the reservation of the window at the end of osb4_setup fails,
\* osb4_setup returns an error and i2c_osb4_init does not reach the
\* region-reserved stage (osb4_initialized stays 0).
C10_LateReservationFails ==
  ReservationFailed =>
    /\ sret # None /\ sret # Some(0)
    /\ osb4_initialized = 0

\* The driver holds a window; the calls osb4_cleanup made to the platform.
DriverHolds == \E b \in DOMAIN regions : regions[b] = "osb4"
CallCount(log, name) == Len(SelectSeq(log, LAMBDA e : e[1] = name))

\* C11: in every reachable state between the steps of the life cycle the
\* driver holds the I/O window exactly when osb4_initialized >= 1; and
\* osb4_cleanup, from whatever stage, unregisters the adapter exactly when
\* stage 2 was reached, releases the window exactly once when stage 1 was
\* reached and not otherwise, and ends with osb4_initialized = 0 (so that a
\* second call does nothing).
C11_TeardownSafe ==
  /\ [](DriverHolds <=> osb4_initialized >= 1)
  /\ [][Cleanup =>
          /\ osb4_initialized' = 0
          /\ CallCount(plat', "i2c_del_adapter") =
               (IF osb4_initialized >= 2 THEN 1 ELSE 0)
          /\ CallCount(plat', "release_region") =
               (IF osb4_initialized >= 1 THEN 1 ELSE 0)]_vars

\* The bytes read from, and written to, the block-data port in this call.
BlockReads ==
  SelectSeq(io, LAMBDA e : e[1] = "in" /\ e[2] = SMBBLKDAT)
BlockWrites ==
  SelectSeq(io, LAMBDA e : e[1] = "out" /\ e[2] = SMBBLKDAT)
Data0Writes ==
  SelectSeq(io, LAMBDA e : e[1] = "out" /\ e[2] = SMBHSTDAT0)

\* C12: a block-data write puts a length of 0..32 in data0; a successful
\* block-data read stores a length of at most 32 in the payload, reads at
\* most 32 bytes from the block-data port and stores none of them outside
\* the payload, whatever the hardware left in data0.
C12_BlockLengthClamped ==
  (sizeIn = I2C_SMBUS_BLOCK_DATA /\ pc = "idle" /\ ret = Some(0)) =>
    IF read_write = I2C_SMBUS_WRITE
      THEN \A i \in 1..Len(Data0Writes) : Data0Writes[i][3] \in 0..I2C_SMBUS_BLOCK_MAX
      ELSE /\ data[0] <= I2C_SMBUS_BLOCK_MAX
           /\ Len(BlockReads) <= I2C_SMBUS_BLOCK_MAX
           /\ overrun = 0

(***************************************************************************)
(* SpecBlock: block-data transfers in both directions, the caller          *)
(* declaring each of the lengths of BlockLengths (the empty block, a short *)
(* one, the longest, and two that are too long) and the hardware answering *)
(* a read with one of BlockReplies.                                        *)
(***************************************************************************)
BlockLengths == {0, 2, I2C_SMBUS_BLOCK_MAX, I2C_SMBUS_BLOCK_MAX + 1, 255}
BlockPayloads == {Payload(L, 16) : L \in BlockLengths}
BlockReplies == {NoData, [dat0 |-> Some(3), dat1 |-> None, blk |-> Some(100)]}

NextBlock ==
  \/ Access({I2C_SMBUS_BLOCK_DATA}, AccDirs, AccAddrs, AccCmds, BlockPayloads)
  \/ T_BusyCheck(AccPre)
  \/ T_Clear
  \/ T_Reread(AccPre)
  \/ T_Start(BlockReplies)
  \/ T_Poll(AccPoll)
  \/ T_Decode
  \/ T_CleanupRead({0, 2})
  \/ T_CleanupWrite({2})
  \/ T_Final({0})
  \/ A_Return

SpecBlock == Init /\ [][NextBlock]_vars

\* The caller is in, or has returned from, a block-data write.
BlockWriteCalled ==
  /\ sizeIn = I2C_SMBUS_BLOCK_DATA
  /\ read_write = I2C_SMBUS_WRITE
  /\ (pc # "idle" \/ ret # None)

\* The declared length L of the payload, cut to 0..32.
DeclaredLen == dataIn[0]
ClampedLen ==
  IF DeclaredLen < 0 THEN 0
  ELSE IF DeclaredLen > 32 THEN 32 ELSE DeclaredLen

\* C13: a block-data write of declared length L writes min(max(L, 0), 32) to
\* data0, then reads SMBHSTCNT once, then writes exactly that many bytes of
\* the payload to the block-data port, in payload order, and no other byte
\* to data0 or to the block-data port in the call.
C13_BlockWriteClamped ==
  BlockWriteCalled =>
    LET n == ClampedLen
    IN /\ Len(io) >= 5 + n
       /\ io[3] = <<"out", SMBHSTDAT0, n>>
       /\ io[4][1] = "in" /\ io[4][2] = SMBHSTCNT
       /\ \A i \in 1..n : io[4 + i] = <<"out", SMBBLKDAT, dataIn[i]>>
       /\ io[5 + n][2] = SMBHSTCNT
       /\ Len(BlockWrites) = n
       /\ Len(Data0Writes) = 1
       /\ \A i \in 1..3 : ~(io[i][1] = "in" /\ io[i][2] = SMBHSTCNT)

\* A write that declared more than 32 bytes went through.
C13_Witness ==
  /\ BlockWriteCalled
  /\ pc = "idle" /\ ret = Some(0)
  /\ DeclaredLen > I2C_SMBUS_BLOCK_MAX
  /\ Len(BlockWrites) = I2C_SMBUS_BLOCK_MAX

(***************************************************************************)
(* SpecAddr: the five supported size classes and the procedure call, in    *)
(* both directions, at each address of AddrSet: the lowest and the highest *)
(* seven-bit address, one in between, and two with bits above bit 6 set.   *)
(***************************************************************************)
AddrSet == {0, 80, 127, 208, 1023}
Supported == {I2C_SMBUS_QUICK, I2C_SMBUS_BYTE, I2C_SMBUS_BYTE_DATA,
              I2C_SMBUS_WORD_DATA, I2C_SMBUS_BLOCK_DATA}
AddrSizes == Supported \cup {I2C_SMBUS_PROC_CALL}

NextAddr ==
  \/ Access(AddrSizes, AccDirs, AddrSet, AccCmds, AccPayloads)
  \/ T_BusyCheck(AccPre)
  \/ T_Clear
  \/ T_Reread(AccPre)
  \/ T_Start({NoData})
  \/ T_Poll(AccPoll)
  \/ T_Decode
  \/ T_CleanupRead({0, 2})
  \/ T_CleanupWrite({2})
  \/ T_Final({0})
  \/ A_Return

SpecAddr == Init /\ [][NextAddr]_vars

\* The caller is in, or has returned from, a call of a supported size class.
SupportedCalled == sizeIn \in Supported /\ (pc # "idle" \/ ret # None)

AddrWrites ==
  SelectSeq(io, LAMBDA e : e[1] = "out" /\ e[2] = SMBHSTADD)

\* C14: in a call of a supported size class the first port access writes
\* 2 * (addr mod 128) + (read_write mod 2) to the address register; it is
\* the only write to that register in the call and comes before the write
\* of the start bit.
C14_AddressByte ==
  SupportedCalled =>
    /\ Len(io) >= 1
    /\ io[1] = <<"out", SMBHSTADD, 2 * (addr % 128) + (read_write % 2)>>
    /\ Len(AddrWrites) = 1
    /\ StartWrites > 0 => FirstStart > 1

\* A transfer to an address with bits above bit 6 set was started.
C14_Witness ==
  /\ SupportedCalled
  /\ addr > 127
  /\ read_write = I2C_SMBUS_READ
  /\ StartWrites = 1
  /\ pc = "idle"

(***************************************************************************)
(* SpecWord: word-data writes of each word of WordValues and word-data     *)
(* reads; the controller leaves data0 and data1 as they are (a read of     *)
(* what was written) or replaces them with a word it received.             *)
(***************************************************************************)
WordValues == {0, 1, 255, 256, 4660, 32768, 65280, 65535}
\* union i2c_smbus_data on a little-endian machine: the word in bytes 0, 1.
WordPayload(V) ==
  [i \in DataIndex |-> IF i = 0 THEN V % 256 ELSE IF i = 1 THEN V \div 256 ELSE 0]
WordPayloads == {WordPayload(V) : V \in WordValues}
WordReplies == {NoData, [dat0 |-> Some(33), dat1 |-> Some(1), blk |-> None]}

NextWord ==
  \/ Access({I2C_SMBUS_WORD_DATA}, AccDirs, AccAddrs, AccCmds, WordPayloads)
  \/ T_BusyCheck(AccPre)
  \/ T_Clear
  \/ T_Reread(AccPre)
  \/ T_Start(WordReplies)
  \/ T_Poll(AccPoll)
  \/ T_Decode
  \/ T_CleanupRead({0, 2})
  \/ T_CleanupWrite({2})
  \/ T_Final({0})
  \/ A_Return

SpecWord == Init /\ [][NextWord]_vars

\* osb4_access has returned 0 from a word-data read.
WordReadDone ==
  /\ sizeIn = I2C_SMBUS_WORD_DATA
  /\ read_write = I2C_SMBUS_READ
  /\ pc = "idle" /\ ret = Some(0)

\* C15: while the word V of the last word-data write is still in the
\* register pair, data0 holds V mod 256 and data1 holds V div 256, and a
\* successful word-data read stores exactly V in the payload.
C15_WordRoundTrip ==
  wordOut # None =>
    LET V == wordOut[1]
    IN /\ regs[SMBHSTDAT0] = V % 256
       /\ regs[SMBHSTDAT1] = V \div 256
       /\ WordReadDone => data[0] + 256 * data[1] = V

\* A word with both bytes non-zero and different came back to a caller that
\* passed another word in.
C15_Witness ==
  /\ WordReadDone
  /\ wordOut = Some(4660)
  /\ dataIn[0] = 0 /\ dataIn[1] = 255
  /\ data[0] = 52 /\ data[1] = 18

\* The writes to the command register in this call, and the size code each
\* supported size class stands for.
CntWrites ==
  SelectSeq(io, LAMBDA e : e[1] = "out" /\ e[2] = SMBHSTCNT)
CodeOf(sz) ==
  CASE sz = I2C_SMBUS_QUICK -> 0
    [] sz = I2C_SMBUS_BYTE -> 4
    [] sz = I2C_SMBUS_BYTE_DATA -> 8
    [] sz = I2C_SMBUS_WORD_DATA -> 12
    [] sz = I2C_SMBUS_BLOCK_DATA -> 20

\* C16 as stated: a started transaction has written the command register
\* once, with the size code and the start bit together.
C16_SingleCommandWrite ==
  StartWrites > 0 => Len(CntWrites) = 1

\* C16: a started transaction has written the command register twice: first
\* the size code without the start bit (osb4_access), then, after reading
\* the register back, the value read with bit 6 set (osb4_transaction); the
\* write that carries the start bit carries the size code too.
C16_StartKeepsSizeBits ==
  StartWrites > 0 =>
    LET w == CntWrites
        n == FirstStart
    IN /\ Len(w) = 2
       /\ (w[1][3] \div StartBit) % 2 = 0
       /\ w[2][3] = w[1][3] + StartBit
       /\ sizeIn \in Supported => w[1][3] = CodeOf(sizeIn)
       /\ n > 1 /\ io[n - 1] = <<"in", SMBHSTCNT, w[1][3]>>
       /\ io[n] = w[2]

\* A block-data transfer was started: the size code is not 0.
C16_Witness ==
  /\ StartWrites = 1
  /\ sizeIn = I2C_SMBUS_BLOCK_DATA
  /\ pc = "idle" /\ ret = Some(0)
  /\ regs[SMBHSTCNT] = OSB4_BLOCK_DATA + StartBit

(***************************************************************************)
(* SpecDecode: the transaction engine with the polling loop reading every  *)
(* combination of the error bits 4, 3 and 2 with the in-progress bit       *)
(* clear, and the in-progress bit set alone or with all three.             *)
(***************************************************************************)
DecodePoll == {4 * k : k \in 0..7} \cup {1, 29}

NextDecode ==
  \/ Access({I2C_SMBUS_BYTE}, {I2C_SMBUS_READ}, {80}, {0}, BytePayloads)
  \/ T_BusyCheck(AccPre)
  \/ T_Clear
  \/ T_Reread(AccPre)
  \/ T_Start({NoData})
  \/ T_Poll(DecodePoll)
  \/ T_Decode
  \/ T_CleanupRead({0, 2})
  \/ T_CleanupWrite({2})
  \/ T_Final({0})
  \/ A_Return

SpecDecode == Init /\ [][NextDecode]_vars

\* Bits 4, 3 and 2 of a status byte, as a number 0..7.
ErrorBits(t) == (t \div 4) % 8

\* C17: when osb4_transaction returns after the busy check has passed, it
\* returns -1 if any of bits 4, 3, 2 of the last status byte of the polling
\* loop is set, whichever and however many, and 0 if none of them is set and
\* the counter is below MAX_TIMEOUT.
C17_DecodeBitwise ==
  (Returned /\ StartWrites > 0) =>
    /\ ErrorBits(lastPoll) # 0 => tret = Some(-1)
    /\ (ErrorBits(lastPoll) = 0 /\ timeout < MAX_TIMEOUT) => tret = Some(0)

\* A transfer that ended with all three error bits set, in the first poll.
C17_Witness ==
  /\ Returned /\ StartWrites > 0 /\ pc = "idle"
  /\ lastPoll = 28
  /\ polls = 1
  /\ ret = Some(-1)

\* The host configuration byte osb4_setup read in this entry into the
\* driver, when it got that far (the window was free at check_region).
ConfigReads ==
  SelectSeq(plat, LAMBDA e : e[1] = "pci_read_config_byte" /\ e[2] = SMBHSTCFG)
OverrideApplied == force_addr # 0 /\ ConfigReads # <<>>

\* C18: when osb4_setup runs with force_addr # 0 and finds the window free,
\* it writes, in this order and nothing else, the host configuration with
\* bit 0 clear, the base-address register with force_addr & 0xfff0, and the
\* host configuration with bit 0 set, whether bit 0 was set before or not;
\* and force is 0 from then on.
C18_OverrideRelocates ==
  OverrideApplied =>
    LET t == ConfigReads[1][3]
    IN /\ ConfigWrites =
            << <<"pci_write_config_byte", SMBHSTCFG, 2 * (t \div 2)>>,
               <<"pci_write_config_word", SMBBA, (16 * (force_addr \div 16)) % 65536>>,
               <<"pci_write_config_byte", SMBHSTCFG, 2 * (t \div 2) + 1>> >>
       /\ force = 0
       /\ osb4_smba = (16 * (force_addr \div 16)) % 65536

\* An override on a controller that was enabled already, with other bits of
\* the host configuration set.
C18_Witness ==
  /\ OverrideApplied
  /\ ConfigReads[1][3] = 9
  /\ spc = "loaded"
  /\ pcicfg[SMBBA] = 4096
  /\ pcicfg[SMBHSTCFG] = 9

\* The polling loop of this call is over.
LoopOver == polls > 0 /\ pc # "t_poll"

\* C19: once the polling loop is over, the counter is at MAX_TIMEOUT or
\* above only if the in-progress bit (bit 0) was set in the last status byte
\* the loop read; a transfer whose last status byte has bit 0 and the three
\* error bits clear does not return failure.
C19_TimeoutOnlyIfBusy ==
  LoopOver =>
    /\ timeout >= MAX_TIMEOUT => lastPoll % 2 = 1
    /\ (Returned /\ lastPoll % 2 = 0 /\ ErrorBits(lastPoll) = 0) => tret = Some(0)

\* C20: a call whose size is none of quick, byte, byte-data, word-data and
\* block-data (the procedure call, or a value no case names) accesses no
\* port of the controller, does not enter osb4_transaction and never writes
\* the start bit.
C20_OnlySupportedStart ==
  (sizeIn \notin Supported /\ (pc # "idle" \/ ret # None)) =>
    /\ pc = "idle"
    /\ io = <<>>
    /\ tret = None
    /\ StartWrites = 0

====
